---- MODULE Spec2Model ----
(***************************************************************************)
(* The session store and background generation worker of the sticker      *)
(* booth (src/main.py).                                                    *)
(*                                                                         *)
(* A session dict is a record with one field per key the handlers use; a   *)
(* key that is not in the dict holds the marker of its type (Absent, NoTs, *)
(* NoProgress, NoImages).  The mime keys are always written next to their  *)
(* image keys and are never read by a decision, so they are left out.      *)
(*                                                                         *)
(* A worker thread keeps `store`, a reference to the dict it found under   *)
(* its sid when it began.  The field `live` says whether that dict is      *)
(* still the one STORE holds under the sid.  A dict that was popped from   *)
(* STORE (or the temporary {} of STORE.get(sid, {})) is referenced by the  *)
(* worker alone and never read by anyone, so writes to it are not kept.    *)
(***************************************************************************)
EXTENDS Integers, Sequences, FiniteSets, TLC

\* ---------------------------------------------------------------- bounds
Browsers == {"A", "B"}          \* browser sessions (signed cookies)
MaxSid == 2                     \* uuid4 values drawn per browser
MaxJobs == 2                    \* worker threads ever spawned
TickStep == 601                 \* seconds the clock advances at once
MaxTime == 601                  \* the clock stops here
ClockJobs == 1                  \* worker threads spawned while the clock runs

\* ------------------------------------------------------ program constants
SESSION_TTL_SECONDS == 600
NumImages == 4

StyleKeys == {"cartoonize"}     \* the keys of STYLE_PROMPTS a client sends
BadStyle == "sepia"             \* a style that is not a key of STYLE_PROMPTS
ProviderErrors == {"provider timeout"}
NoImageError == "No image returned from model"
KeyErrorText == "KeyError"

Absent == "absent"              \* key not in the dict (string valued keys)
None == "None"
NoTs == -1                      \* "ts" not in the dict
NoProgress == -1                \* "gen_progress" not in the dict
NoImages == <<>>                \* image list key not in the dict
NoSid == <<"none", 0>>          \* no "sid" in the cookie

Threads == 1..MaxJobs
Sids == Browsers \X (1..MaxSid)

VARIABLES now, cookie, nsid, STORE, thr, lost

vars == <<now, cookie, nsid, STORE, thr, lost>>

EmptyDict ==
  [captured_image |-> Absent, selected_style |-> Absent,
   selected_prompt |-> Absent, generated_images |-> NoImages,
   approved_images |-> NoImages, ts |-> NoTs, gen_status |-> Absent,
   gen_progress |-> NoProgress, gen_error |-> Absent]

IdleThread ==
  [pc |-> "idle", sid |-> NoSid, live |-> FALSE, i |-> 0,
   images_out |-> <<>>, exc |-> None]

STYLE_PROMPTS(style) == "prompt of " \o style

\* ------------------------------------------------------------ the store
\* dict.pop / del for a set of sids
Remove(S, gone) == [s \in (DOMAIN S) \ gone |-> S[s]]

\* the sids purge_expired pops at time `now`
Expired(S) ==
  {s \in DOMAIN S : S[s].ts # NoTs /\ now - S[s].ts > SESSION_TTL_SECONDS}

purge_expired(S) == Remove(S, Expired(S))

\* _touch_and_purge: purge, then refresh "ts" of the cookie's session
touch_and_purge(S, c) ==
  LET P == purge_expired(S)
  IN IF c \in DOMAIN P THEN [P EXCEPT ![c].ts = now] ELSE P

\* a worker whose dict left STORE no longer shares it with STORE
Detach(T, gone) ==
  [t \in Threads |->
     IF T[t].live /\ T[t].sid \in gone THEN [T[t] EXCEPT !.live = FALSE]
     ELSE T[t]]

\* get_sid: the sid of the cookie, or a new uuid4
SidOf(b) == IF cookie[b] # NoSid THEN cookie[b] ELSE <<b, nsid[b] + 1>>

CanGetSid(b) == cookie[b] # NoSid \/ nsid[b] < MaxSid

\* get_sid: make sure the backing dict exists
Ensure(S, sid) == IF sid \in DOMAIN S THEN S ELSE (sid :> EmptyDict) @@ S

\* the store as a handler sees it after before_request and get_sid
Entered(b) == Ensure(touch_and_purge(STORE, cookie[b]), SidOf(b))

\* History of a browser's session, kept for the properties only: "reset" after
\* /reset, "purged" after purge_expired popped the session of its cookie, and
\* "none" again once a handler of that browser writes to its session.
Lost(b, wrote) ==
  [c \in Browsers |->
     IF c = b /\ wrote THEN "none"
     ELSE IF cookie[c] \in Expired(STORE) THEN "purged"
     ELSE lost[c]]

\* what every request does around its handler: the store becomes S
Request(b, S) ==
  /\ CanGetSid(b)
  /\ STORE' = S
  /\ cookie' = [cookie EXCEPT ![b] = SidOf(b)]
  /\ nsid' = [nsid EXCEPT ![b] = IF cookie[b] = NoSid THEN @ + 1 ELSE @]
  /\ lost' = Lost(b, S # Entered(b))
  /\ now' = now

Init ==
  /\ now = 0
  /\ cookie = [b \in Browsers |-> NoSid]
  /\ nsid = [b \in Browsers |-> 0]
  /\ STORE = <<>>
  /\ thr = [t \in Threads |-> IdleThread]
  /\ lost = [b \in Browsers |-> "none"]

\* time.time() advances
Tick ==
  /\ now + TickStep <= MaxTime
  /\ now' = now + TickStep
  /\ UNCHANGED <<cookie, nsid, STORE, thr, lost>>

\* GET / (and the other pages, which only call get_sid and read)
camera(b) ==
  /\ Request(b, Entered(b))
  /\ thr' = Detach(thr, Expired(STORE))

\* POST /capture with a payload: "photo" is a well-formed data URL
capture(b, data) ==
  LET S == Entered(b)
      sid == SidOf(b)
  IN /\ Request(b, IF data = "photo"
                   THEN [S EXCEPT ![sid].captured_image = data, ![sid].ts = now]
                   ELSE S)
     /\ thr' = Detach(thr, Expired(STORE))

\* POST /style with a chosen style
style_select(b, selected) ==
  LET S == Entered(b)
      sid == SidOf(b)
  IN /\ Request(b, IF S[sid].captured_image = Absent \/ selected \notin StyleKeys
                   THEN S
                   ELSE [S EXCEPT ![sid].selected_style = selected,
                                  ![sid].selected_prompt = STYLE_PROMPTS(selected)])
     /\ thr' = Detach(thr, Expired(STORE))

\* the check of api_generate_multi_start: `not img or not style_key or not base_prompt`
MissingInput(d) ==
  \/ d.captured_image = Absent
  \/ d.selected_style = Absent
  \/ d.selected_prompt = Absent

\* a start that leaves the error of the previous job in place
Queued_keeps_error(d) ==
  [d EXCEPT !.gen_status = "queued", !.gen_progress = 0]

\* the fields api_generate_multi_start initialises
Queued(d) ==
  [d EXCEPT !.gen_status = "queued", !.gen_progress = 0, !.gen_error = None]

\* threading.Thread(target=_run_multi_generation, args=(sid, ...)).start()
Spawn(T, t, sid) == [T EXCEPT ![t] = [IdleThread EXCEPT !.pc = "l231", !.sid = sid]]

\* the worker slots among `slots` no thread has used yet
FreeThreads(slots) == {t \in slots : thr[t].pc = "idle"}

\* a start handler that initialises the status before it validates the input
api_generate_multi_start_unchecked(b, slots) ==
  LET S == Entered(b)
      sid == SidOf(b)
      T == Detach(thr, Expired(STORE))
  IN IF MissingInput(S[sid])
     THEN /\ Request(b, [S EXCEPT ![sid] = Queued(@)])
          /\ thr' = T
     ELSE /\ FreeThreads(slots) # {}
          /\ Request(b, [S EXCEPT ![sid] = Queued(@)])
          /\ thr' = Spawn(T, CHOOSE t \in FreeThreads(slots) :
                                \A u \in FreeThreads(slots) : t <= u, sid)

\* POST /api/generate-multi-start; the thread it starts takes a slot of `slots`
api_generate_multi_start(b, slots) ==
  LET S == Entered(b)
      sid == SidOf(b)
      T == Detach(thr, Expired(STORE))
  IN IF MissingInput(S[sid])
     THEN /\ Request(b, S)
          /\ thr' = T
     ELSE /\ FreeThreads(slots) # {}
          /\ Request(b, [S EXCEPT ![sid] = Queued(@)])
          /\ thr' = Spawn(T, CHOOSE t \in FreeThreads(slots) :
                                \A u \in FreeThreads(slots) : t <= u, sid)

\* what api_gen_status answers from a session dict
StatusOf(d) ==
  [status |-> IF d.gen_status = Absent THEN "idle" ELSE d.gen_status,
   progress |-> IF d.gen_progress = NoProgress THEN 0 ELSE d.gen_progress,
   error |-> IF d.gen_error = Absent THEN None ELSE d.gen_error]

\* GET /api/gen-status
api_gen_status(b) ==
  /\ Request(b, Entered(b))
  /\ thr' = Detach(thr, Expired(STORE))

\* a cancel that flags every session of the store
api_gen_cancel_all(b) ==
  /\ Request(b, [s \in DOMAIN Entered(b) |->
                   [Entered(b)[s] EXCEPT !.gen_status = "canceled"]])
  /\ thr' = Detach(thr, Expired(STORE))

\* POST /api/gen-cancel
api_gen_cancel(b) ==
  /\ Request(b, [Entered(b) EXCEPT ![SidOf(b)].gen_status = "canceled"])
  /\ thr' = Detach(thr, Expired(STORE))

\* what api_approved_list answers from a session dict
ApprovedOf(d) ==
  IF d.approved_images = NoImages \/ Len(d.approved_images) # NumImages
  THEN "NotReady" ELSE d.approved_images

\* GET /api/approved-list
api_approved_list(b) ==
  /\ Request(b, Entered(b))
  /\ thr' = Detach(thr, Expired(STORE))

\* the keys print_direct pops after a successful print
Popped(d) ==
  [d EXCEPT !.captured_image = Absent, !.generated_images = NoImages,
            !.approved_images = NoImages, !.selected_style = Absent,
            !.selected_prompt = Absent, !.ts = NoTs, !.gen_status = Absent,
            !.gen_progress = NoProgress, !.gen_error = Absent]

PrintOutcomes == {"no_lp", "bad_payload", "lp_failed", "printed"}

\* POST /print-direct
print_direct(b, outcome) ==
  IF outcome = "no_lp"
  THEN \* returns before get_sid: only before_request has run
       /\ STORE' = touch_and_purge(STORE, cookie[b])
       /\ thr' = Detach(thr, Expired(STORE))
            /\ lost' = Lost(b, FALSE)
       /\ UNCHANGED <<now, cookie, nsid>>
  ELSE /\ Request(b, IF outcome = "printed"
                     THEN [Entered(b) EXCEPT ![SidOf(b)] = Popped(@)]
                     ELSE Entered(b))
       /\ thr' = Detach(thr, Expired(STORE))

\* a reset that deletes the store entry but leaves the cookie as it is
HardReset_keeps_cookie(b) ==
  LET gone == Expired(STORE) \cup {cookie[b]}
  IN /\ STORE' = Remove(touch_and_purge(STORE, cookie[b]), {cookie[b]})
     /\ thr' = Detach(thr, gone)
     /\ lost' = [Lost(b, FALSE) EXCEPT ![b] = "reset"]
     /\ UNCHANGED <<now, nsid, cookie>>

\* the body of /reset and of /start-new
HardReset(b) ==
  LET gone == Expired(STORE) \cup {cookie[b]}
  IN /\ STORE' = Remove(touch_and_purge(STORE, cookie[b]), {cookie[b]})
     /\ thr' = Detach(thr, gone)
     /\ cookie' = [cookie EXCEPT ![b] = NoSid]
        /\ lost' = [Lost(b, FALSE) EXCEPT ![b] = "reset"]
     /\ UNCHANGED <<now, nsid>>

\* POST /reset
reset(b) == HardReset(b)

\* POST /start-new
start_new(b) == HardReset(b)

\* ------------------------------------------------ _run_multi_generation
\* store[key] = value on the dict the worker bound at line 231
WriteStore(t, d) ==
  IF thr[t].live THEN [STORE EXCEPT ![thr[t].sid] = d] ELSE STORE

\* the dict behind `store`, as far as anyone can read it
StoreOf(t) == IF thr[t].live THEN STORE[thr[t].sid] ELSE EmptyDict

\* a step of worker t that leaves the requests' state alone
WorkerStep(t, at) ==
  /\ thr[t].pc = at
  /\ UNCHANGED <<now, cookie, nsid, lost>>

\* the function returns (or ends): its locals are gone
Ended(th) == [IdleThread EXCEPT !.pc = "end"]

\* line 231: store = STORE.get(sid, {})
worker_begin(t) ==
  /\ WorkerStep(t, "l231")
  /\ thr' = [thr EXCEPT ![t].pc = "l233", ![t].live = (thr[t].sid \in DOMAIN STORE)]
  /\ UNCHANGED STORE

\* line 233: store["gen_status"] = "running"
worker_set_running(t) ==
  /\ WorkerStep(t, "l233")
  /\ STORE' = WriteStore(t, [StoreOf(t) EXCEPT !.gen_status = "running"])
  /\ thr' = [thr EXCEPT ![t].pc = "l234"]

\* line 234: store["gen_progress"] = 0
worker_reset_progress(t) ==
  /\ WorkerStep(t, "l234")
  /\ STORE' = WriteStore(t, [StoreOf(t) EXCEPT !.gen_progress = 0])
  /\ thr' = [thr EXCEPT ![t].pc = "l235"]

\* line 235: store["gen_error"] = None
worker_clear_error(t) ==
  /\ WorkerStep(t, "l235")
  /\ STORE' = WriteStore(t, [StoreOf(t) EXCEPT !.gen_error = None])
  /\ thr' = [thr EXCEPT ![t].pc = "l246"]

\* line 246: STORE.get(sid, {}).get("gen_status") == "canceled"
SeesCanceled(t) ==
  /\ thr[t].sid \in DOMAIN STORE
  /\ STORE[thr[t].sid].gen_status = "canceled"

\* a worker that waits at the cancel check while the job is canceled
worker_check_and_call_waits(t) ==
  /\ WorkerStep(t, "l246")
  /\ thr' = [thr EXCEPT ![t] = IF SeesCanceled(t) THEN @
                               ELSE [@ EXCEPT !.pc = "l258"]]
  /\ UNCHANGED STORE

\* lines 246-258: the cancel check of iteration i, then the call is sent.
\* Sending the call touches no shared state, so it is one step with the check.
worker_check_and_call(t) ==
  /\ WorkerStep(t, "l246")
  /\ thr' = [thr EXCEPT ![t] = IF SeesCanceled(t) THEN Ended(@)
                               ELSE [@ EXCEPT !.pc = "l258"]]
  /\ UNCHANGED STORE

CallOutcomes == {"image", "no_image"} \cup ProviderErrors

\* the image the call of iteration i of worker t returns
ImageOf(t, i) == <<t, i>>

\* int(((i + 1) / 4) * 100)
ProgressAfter(i) == ((i + 1) * 100) \div NumImages

\* str(e) of what lines 258-290 raise for a call that yields no image
RaisedBy(outcome) == IF outcome = "no_image" THEN NoImageError ELSE outcome

\* a loop that stops one image short: range(3) in place of range(4)
worker_call_returns_short(t, outcome) ==
  /\ WorkerStep(t, "l258")
  /\ IF outcome # "image"
     THEN /\ thr' = [thr EXCEPT ![t].pc = "l307", ![t].exc = RaisedBy(outcome)]
          /\ UNCHANGED STORE
     ELSE IF thr[t].sid \in DOMAIN STORE
     THEN /\ STORE' = [STORE EXCEPT ![thr[t].sid].gen_progress = ProgressAfter(thr[t].i)]
          /\ thr' = [thr EXCEPT ![t].i = @ + 1,
                                ![t].images_out = Append(@, ImageOf(t, thr[t].i)),
                                ![t].pc = IF thr[t].i + 2 < NumImages THEN "l246" ELSE "l299"]
     ELSE /\ thr' = [thr EXCEPT ![t].pc = "l307", ![t].exc = KeyErrorText]
          /\ UNCHANGED STORE

\* lines 258-296: client.images.edit returns or raises (the worker waited in
\* the call); an image is appended to images_out and the progress is written
\* to STORE[sid], then the loop goes on or ends.  Extracting and appending
\* touch no shared state, so they are one step with the write that follows.
worker_call_returns(t, outcome) ==
  /\ WorkerStep(t, "l258")
  /\ IF outcome # "image"
     THEN /\ thr' = [thr EXCEPT ![t].pc = "l307", ![t].exc = RaisedBy(outcome)]
          /\ UNCHANGED STORE
     ELSE IF thr[t].sid \in DOMAIN STORE
     THEN /\ STORE' = [STORE EXCEPT ![thr[t].sid].gen_progress = ProgressAfter(thr[t].i)]
          /\ thr' = [thr EXCEPT ![t].i = @ + 1,
                                ![t].images_out = Append(@, ImageOf(t, thr[t].i)),
                                ![t].pc = IF thr[t].i + 1 < NumImages THEN "l246" ELSE "l299"]
     ELSE \* STORE[sid] raises KeyError
          /\ thr' = [thr EXCEPT ![t].pc = "l307", ![t].exc = KeyErrorText]
          /\ UNCHANGED STORE

\* line 299: store["generated_images"] = images_out
worker_publish_generated(t) ==
  /\ WorkerStep(t, "l299")
  /\ STORE' = WriteStore(t, [StoreOf(t) EXCEPT !.generated_images = thr[t].images_out])
  /\ thr' = [thr EXCEPT ![t].pc = "l301"]

\* line 301: store["approved_images"] = images_out
worker_publish_approved(t) ==
  /\ WorkerStep(t, "l301")
  /\ STORE' = WriteStore(t, [StoreOf(t) EXCEPT !.approved_images = thr[t].images_out])
  /\ thr' = [thr EXCEPT ![t].pc = "l303"]

\* line 303: store["gen_status"] = "done"
worker_set_done(t) ==
  /\ WorkerStep(t, "l303")
  /\ STORE' = WriteStore(t, [StoreOf(t) EXCEPT !.gen_status = "done"])
  /\ thr' = [thr EXCEPT ![t].pc = "l304"]

\* line 304: store["ts"] = time.time()
worker_touch(t) ==
  /\ WorkerStep(t, "l304")
  /\ STORE' = WriteStore(t, [StoreOf(t) EXCEPT !.ts = now])
  /\ thr' = [thr EXCEPT ![t] = Ended(@)]

\* a worker that goes back into the loop after a failed call
worker_set_error_retry(t) ==
  /\ WorkerStep(t, "l307")
  /\ STORE' = WriteStore(t, [StoreOf(t) EXCEPT !.gen_status = "error"])
  /\ thr' = [thr EXCEPT ![t].pc = "l246"]

\* line 307: store["gen_status"] = "error"
worker_set_error(t) ==
  /\ WorkerStep(t, "l307")
  /\ STORE' = WriteStore(t, [StoreOf(t) EXCEPT !.gen_status = "error"])
  /\ thr' = [thr EXCEPT ![t].pc = "l308"]

\* line 308: store["gen_error"] = str(e)
worker_record_error(t) ==
  /\ WorkerStep(t, "l308")
  /\ STORE' = WriteStore(t, [StoreOf(t) EXCEPT !.gen_error = thr[t].exc])
  /\ thr' = [thr EXCEPT ![t] = Ended(@)]

Worker(t) ==
  \/ worker_begin(t)
  \/ worker_set_running(t)
  \/ worker_reset_progress(t)
  \/ worker_clear_error(t)
  \/ worker_check_and_call(t)
  \/ \E outcome \in CallOutcomes : worker_call_returns(t, outcome)
  \/ worker_publish_generated(t)
  \/ worker_publish_approved(t)
  \/ worker_set_done(t)
  \/ worker_touch(t)
  \/ worker_set_error(t)
  \/ worker_record_error(t)

\* the requests of one browser
Client(b, slots) ==
  \/ camera(b)
  \/ \E data \in {"junk", "photo"} : capture(b, data)
  \/ \E selected \in StyleKeys \cup {BadStyle} : style_select(b, selected)
  \/ api_generate_multi_start(b, slots)
  \/ api_gen_status(b)
  \/ api_gen_cancel(b)
  \/ api_approved_list(b)
  \/ \E outcome \in PrintOutcomes : print_direct(b, outcome)
  \/ reset(b)
  \/ start_new(b)

\* the browsers that send requests
Clients == {"A"}

\* all requests arrive within the TTL of each other: the clock stands still
Next ==
  \/ \E b \in Clients : Client(b, Threads)
  \/ \E t \in Threads : Worker(t)

Spec == Init /\ [][Next]_vars


\* with the clock running, the jobs take the worker slots up to ClockJobs
NextClock ==
  \/ Tick
  \/ \E b \in Clients : Client(b, 1..ClockJobs)
  \/ \E t \in 1..ClockJobs : Worker(t)

SpecClock == Init /\ [][NextClock]_vars

\* the requests of one browser that lead to a job and act on it
JobClient(b, slots) ==
  \/ capture(b, "photo")
  \/ \E selected \in StyleKeys : style_select(b, selected)
  \/ api_generate_multi_start(b, slots)
  \/ api_gen_status(b)
  \/ api_gen_cancel(b)

\* the worker slot the job of browser b takes when every browser runs one job
SlotOf(b) == {IF b = "A" THEN 1 ELSE MaxJobs}

\* two browsers within the TTL of each other, each with its session and its job
NextTwo ==
  \/ \E b \in Browsers : JobClient(b, SlotOf(b))
  \/ \E t \in Threads : Worker(t)

SpecTwo == Init /\ [][NextTwo]_vars

\* every started thread is scheduled again and again, and every transform call
\* it waits for returns or raises
Fairness == \A t \in Threads : WF_vars(Worker(t))

\* one browser that starts, polls, cancels and restarts jobs and resets its
\* session, the workers being scheduled fairly
NextFair ==
  \/ \E b \in Clients : JobClient(b, Threads)
  \/ \E b \in Clients : reset(b)
  \/ \E t \in Threads : Worker(t)

SpecFair == Init /\ [][NextFair]_vars /\ Fairness

\* ------------------------------------------------------------ properties
Terminal == {"done", "error", "canceled"}
NonTerminal == {"queued", "running"}

\* some result list of the session dict is published
Published(d) == d.generated_images # NoImages \/ d.approved_images # NoImages

\* this step is an accepted startJob on session sid
NewStart(sid) ==
  \E u \in Threads : thr[u].pc = "idle" /\ thr'[u].pc = "l231" /\ thr'[u].sid = sid

\* worker t is running on a session that is in the store
Active(t) == thr[t].pc \notin {"idle", "end"} /\ thr[t].sid \in DOMAIN STORE

\* what pollStatus / fetchResults of browser b would answer in this state
PollOf(b) == StatusOf(Entered(b)[SidOf(b)])
FetchOf(b) == ApprovedOf(Entered(b)[SidOf(b)])

IdleDefault == [status |-> "idle", progress |-> 0, error |-> None]

\* C1: a session whose status is Queued or Running has no published results;
\* results are visible only while the status is Done.
C1_NoResultsUntilDone ==
  \A sid \in DOMAIN STORE :
    /\ STORE[sid].gen_status \in NonTerminal => ~Published(STORE[sid])
    /\ Published(STORE[sid]) => STORE[sid].gen_status = "done"

\* worker t has not started its first step and a cancel was requested for its job
CanceledBeforeFirstStep(t) ==
  /\ thr[t].pc \in {"l231", "l233", "l234", "l235", "l246"}
  /\ thr[t].i = 0
  /\ thr[t].sid \in DOMAIN STORE
  /\ STORE[thr[t].sid].gen_status = "canceled"

\* C2: a job canceled before its first step never sends a transform call, and
\* the status of its session does not become Running or Done afterwards.
C2_CancelBeforeFirstStep ==
  [][\A t \in Threads :
       CanceledBeforeFirstStep(t) /\ ~NewStart(thr[t].sid) =>
         /\ thr'[t].pc \notin {"l258", "l299", "l301", "l303"}
         /\ thr[t].sid \in DOMAIN STORE' =>
              STORE'[thr[t].sid].gen_status \notin {"running", "done"}]_vars

\* the call of step k = i + 1 (k = 1, 2 or 3) of worker t is in flight and a
\* cancel was requested
CanceledInFlight(t) ==
  /\ thr[t].pc = "l258"
  /\ thr[t].i < NumImages - 1
  /\ thr[t].sid \in DOMAIN STORE
  /\ STORE[thr[t].sid].gen_status = "canceled"

\* C3: after a cancel during the call of step k, with no later startJob, the
\* status stays Canceled: it is not Queued, Running or Done again, the worker
\* that comes back from the call sends no call for step k + 1 and publishes
\* nothing.
C3_CancelInFlight ==
  [][\A t \in Threads :
       /\ CanceledInFlight(t) /\ ~NewStart(thr[t].sid) =>
            /\ thr'[t].pc \in {"l258", "l246", "l307", "end"}
            /\ thr[t].sid \in DOMAIN STORE' =>
                 STORE'[thr[t].sid].gen_status \notin {"queued", "running", "done"}
       /\ thr[t].pc = "l246" /\ thr[t].i > 0 /\ SeesCanceled(t) =>
            thr'[t].pc \in {"l246", "end"}]_vars

\* C4: a terminal status is followed by Queued or Running only through an
\* accepted startJob.
C4_TerminalSticky ==
  [][\A sid \in DOMAIN STORE \cap DOMAIN STORE' :
       STORE[sid].gen_status \in Terminal /\ STORE'[sid].gen_status \in NonTerminal
         => NewStart(sid)]_vars

ProgressValues == {ProgressAfter(i) : i \in 0..(NumImages - 1)} \cup {0}

\* C5: while a job runs to Done the polled progress never decreases, it is one
\* of 0, 25, 50, 75, 100, and it is 100 whenever the status is Done.
C5_ProgressMonotone ==
  [][\A sid \in DOMAIN STORE \cap DOMAIN STORE' :
       /\ StatusOf(STORE'[sid]).progress \in ProgressValues
       /\ STORE'[sid].gen_status = "done" => StatusOf(STORE'[sid]).progress = 100
       /\ (/\ STORE[sid].gen_status \in NonTerminal
           /\ STORE'[sid].gen_status \in NonTerminal \cup {"done"}
           /\ ~NewStart(sid))
          => StatusOf(STORE'[sid]).progress >= StatusOf(STORE[sid]).progress]_vars

\* C6: a failed transform call ends the job: the worker sends no further call
\* and does not retry, publishes nothing, sets the status Failed and records the
\* text of the error, which a poll of the session (while it has not expired)
\* then returns.
C6_FailureStopsJob ==
  [][\A t \in Threads :
       /\ thr[t].pc = "l258" /\ thr'[t].pc = "l307" =>
            thr'[t].exc \in ProviderErrors \cup {NoImageError, KeyErrorText}
       /\ thr[t].pc \in {"l307", "l308"} =>
            /\ thr'[t].pc \in {"l307", "l308", "end"}
            /\ thr'[t].pc # thr[t].pc /\ thr[t].live =>
                 /\ STORE'[thr[t].sid].generated_images = STORE[thr[t].sid].generated_images
                 /\ STORE'[thr[t].sid].approved_images = STORE[thr[t].sid].approved_images
       /\ thr[t].pc = "l307" /\ thr'[t].pc = "l308" /\ thr[t].live =>
            STORE'[thr[t].sid].gen_status = "error"
       /\ thr[t].pc = "l308" /\ thr'[t].pc = "end" /\ thr[t].live =>
            \A b \in Browsers : cookie[b] = thr[t].sid /\ cookie[b] \notin Expired(STORE)' =>
              /\ PollOf(b)'.error = thr[t].exc
              /\ STORE[thr[t].sid].gen_status = "error" => PollOf(b)'.status = "error"]_vars

\* C6 witness: the call of step 3 failed, the job is over, the poll shows the
\* provider's text and the two images of steps 1 and 2 were not published
C6_Witness ==
  \E b \in Browsers :
    /\ cookie[b] \in DOMAIN STORE
    /\ PollOf(b).status = "error"
    /\ PollOf(b).error \in ProviderErrors
    /\ PollOf(b).progress = ProgressAfter(1)
    /\ ~Published(STORE[cookie[b]])
    /\ \A t \in Threads : thr[t].pc \in {"idle", "end"}

JobFields(d) ==
  <<d.gen_status, d.gen_progress, d.gen_error, d.generated_images, d.approved_images>>

\* the session dict of browser b, empty when it has none
SessionOf(b) == IF cookie[b] \in DOMAIN STORE THEN STORE[cookie[b]] ELSE EmptyDict

\* C7: a startJob rejected for missing input starts no thread and changes no
\* job field (status, progress, error, results) of any session dict; the job fields
\* the caller's session shows are those it showed before, unless the session
\* had expired and the purge of this very request popped it.
C7_RejectedStartFrame ==
  [][\A b \in Clients :
       MissingInput(Entered(b)[SidOf(b)]) /\ api_generate_multi_start(b, Threads) =>
         /\ \A t \in Threads : thr'[t].pc = thr[t].pc
         /\ \A sid \in (DOMAIN STORE \ Expired(STORE)) \cap DOMAIN STORE' :
              JobFields(STORE'[sid]) = JobFields(STORE[sid])
         /\ cookie[b] \notin Expired(STORE) =>
              JobFields(SessionOf(b)') = JobFields(SessionOf(b))]_vars

\* C7 witness: a session with job state but without a selected style, on which
\* startJob is rejected
C7_Witness ==
  \E b \in Clients :
    /\ cookie[b] \in DOMAIN STORE
    /\ STORE[cookie[b]].captured_image # Absent
    /\ STORE[cookie[b]].selected_style = Absent
    /\ STORE[cookie[b]].gen_status # Absent

\* C8: after the purge popped a browser's session, and until that browser
\* writes again, its poll answers Idle / 0 / no error and shows no image.
C8_EvictedSessionFresh ==
  \A b \in Browsers :
    lost[b] = "purged" =>
      /\ PollOf(b) = IdleDefault
      /\ FetchOf(b) = "NotReady"
      /\ Entered(b)[SidOf(b)].captured_image = Absent
      /\ ~Published(Entered(b)[SidOf(b)])

\* C9: after a reset, the poll of that browser answers Idle / 0 / no error and
\* fetchResults answers NotReady, whatever the earlier job does meanwhile.
C9_ResetThenPoll ==
  \A b \in Browsers :
    lost[b] = "reset" => PollOf(b) = IdleDefault /\ FetchOf(b) = "NotReady"

\* C9 witness: a browser that reset during its job and polled again (its new
\* session is in the store) while the worker of the old job still runs
C9_Witness ==
  \E b \in Browsers :
    /\ lost[b] = "reset"
    /\ cookie[b] \in DOMAIN STORE
    /\ \E t \in Threads : thr[t].pc = "l258" /\ thr[t].sid # cookie[b]

\* C10: every session in the store has a lastActivity timestamp, and after the
\* purge of a request none is left that is older than the TTL.
C10_SessionsExpire ==
  [][(\E b \in Clients : Client(b, Threads)) =>
       \A sid \in DOMAIN STORE' :
         /\ STORE'[sid].ts # NoTs
         /\ now' - STORE'[sid].ts <= SESSION_TTL_SECONDS]_vars

\* C11: cancelJob on a session whose status is Done, Failed or Canceled leaves
\* status, progress, error and results as they are (so a second cancel in a row
\* changes nothing the first one left).
C11_CancelTerminalNoEffect ==
  [][\A b \in Clients :
       (/\ api_gen_cancel(b)
        /\ cookie[b] \in DOMAIN STORE \ Expired(STORE)
        /\ STORE[cookie[b]].gen_status \in Terminal)
       => JobFields(SessionOf(b)') = JobFields(SessionOf(b))]_vars

\* the keys of a session dict other than the activity time stamp
DataFields(d) ==
  <<d.captured_image, d.selected_style, d.selected_prompt, JobFields(d)>>

PollStatuses == {"idle", "queued", "running", "done", "canceled", "error"}

\* C12: pollStatus changes neither the set of sessions in the store nor a field
\* of the polled session, and answers a status of the six, a progress in
\* 0..100, and Idle / 0 / no error for a session no job ever wrote to.
C12_PollPureRead ==
  [][\A b \in Clients :
       api_gen_status(b) =>
         /\ DOMAIN STORE' = DOMAIN STORE
         /\ cookie[b] \in DOMAIN STORE =>
              DataFields(SessionOf(b)') = DataFields(SessionOf(b))
         /\ PollOf(b).status \in PollStatuses
         /\ PollOf(b).progress \in 0..100
         /\ JobFields(Entered(b)[SidOf(b)]) = JobFields(EmptyDict) =>
              PollOf(b) = IdleDefault]_vars

\* C13: the step of an accepted startJob leaves the session Queued with
\* progress 0 and no error, the thread it starts has sent nothing yet, and a
\* transform call is only ever sent by a step of the worker.
C13_StartQueuesOnly ==
  [][/\ \A sid \in Sids :
          NewStart(sid) =>
            /\ sid \in DOMAIN STORE'
            /\ STORE'[sid].gen_status = "queued"
            /\ STORE'[sid].gen_progress = 0
            /\ STORE'[sid].gen_error = None
            /\ \A t \in Threads :
                 thr[t].pc = "idle" /\ thr'[t].pc = "l231" =>
                   thr'[t].i = 0 /\ thr'[t].images_out = <<>>
     /\ \A t \in Threads :
          thr[t].pc # "l258" /\ thr'[t].pc = "l258" => worker_check_and_call(t)]_vars

\* C13 witness: a second job was accepted after the first one ended Done: the
\* session is Queued with progress 0 and the new thread has not begun
C13_Witness ==
  \E sid \in DOMAIN STORE, t \in Threads :
    /\ thr[t].pc = "l231" /\ thr[t].sid = sid
    /\ StatusOf(STORE[sid]) = [status |-> "queued", progress |-> 0, error |-> None]
    /\ STORE[sid].approved_images # NoImages
    /\ \E u \in Threads : thr[u].pc = "end"

\* the 4 step outputs of the job of worker t, in step order
OutputsOf(t) == [k \in 1..NumImages |-> ImageOf(t, k - 1)]

\* C14: a published result list of a session is the 4 step outputs of one job
\* in step order, and fetchResults answers NotReady unless 4 approved results
\* exist.
C14_ResultsFourOfOneJob ==
  /\ \A sid \in DOMAIN STORE :
       \A r \in {STORE[sid].generated_images, STORE[sid].approved_images} :
         r # NoImages => \E t \in Threads : r = OutputsOf(t)
  /\ \A b \in Browsers :
       CanGetSid(b) =>
         LET d == Entered(b)[SidOf(b)]
         IN IF d.approved_images # NoImages /\ Len(d.approved_images) = NumImages
            THEN FetchOf(b) = d.approved_images
            ELSE FetchOf(b) = "NotReady"

\* C14 witness: the results of one job are published and fetched while a
\* second job of the same session holds its own 4 outputs, about to publish
C14_Witness ==
  \E b \in Browsers, t \in Threads, u \in Threads :
    /\ cookie[b] \in DOMAIN STORE
    /\ Entered(b)[SidOf(b)].approved_images = OutputsOf(t)
    /\ FetchOf(b) = Entered(b)[SidOf(b)].approved_images
    /\ STORE[cookie[b]].generated_images = OutputsOf(t)
    /\ u # t /\ thr[u].sid = cookie[b] /\ thr[u].pc = "l299"
    /\ thr[u].images_out = OutputsOf(u)

\* C15: the step of a successful print of a session with approved results
\* removes the session from the store as reset does: its token maps to no
\* entry any more, and no image, style or job field of it is left.
C15_PrintHardDeletes ==
  [][\A b \in Clients :
       (/\ cookie[b] \in DOMAIN STORE \ Expired(STORE)
        /\ STORE[cookie[b]].approved_images # NoImages
        /\ print_direct(b, "printed"))
       => /\ cookie[b] \notin DOMAIN STORE'
          /\ DataFields(SessionOf(b)') = DataFields(EmptyDict)]_vars

\* the call of the last step of worker t is in flight and a cancel was requested
CanceledInLastCall(t) ==
  /\ thr[t].pc = "l258"
  /\ thr[t].i = NumImages - 1
  /\ thr[t].sid \in DOMAIN STORE
  /\ STORE[thr[t].sid].gen_status = "canceled"

\* C16: a job canceled while the call of its 4th step is in flight publishes
\* nothing and does not turn the status into Done (or Running) when the call
\* returns.
C16_CancelDuringLastCall ==
  [][\A t \in Threads :
       CanceledInLastCall(t) /\ ~NewStart(thr[t].sid) =>
         /\ thr'[t].pc \in {"l258", "l307", "end"}
         /\ thr[t].sid \in DOMAIN STORE' =>
              /\ STORE'[thr[t].sid].gen_status \notin {"running", "done"}
              /\ STORE'[thr[t].sid].generated_images = STORE[thr[t].sid].generated_images
              /\ STORE'[thr[t].sid].approved_images = STORE[thr[t].sid].approved_images]_vars

\* the session worker t was started for has been removed from the store since
Removed(t) ==
  /\ thr[t].pc \notin {"idle", "end"}
  /\ \/ thr[t].sid \notin DOMAIN STORE
     \/ thr[t].pc # "l231" /\ ~thr[t].live

\* C17: once its session was removed, a worker sends no further transform
\* call, does not take the failure path (status Failed), and writes nothing to
\* a session stored under its sid.
C17_RemovalCancelsJob ==
  [][\A t \in Threads :
       Removed(t) =>
         /\ thr'[t].pc = "l258" => thr[t].pc = "l258"
         /\ thr'[t].pc \in {"l307", "l308"} => thr[t].pc \in {"l307", "l308"}
         /\ Worker(t) /\ thr[t].sid \in DOMAIN STORE \cap DOMAIN STORE' =>
              STORE'[thr[t].sid] = STORE[thr[t].sid]]_vars

\* C18: no two workers are active on one session at the same time.
C18_OneJobPerSession ==
  \A t \in Threads, u \in Threads :
    t # u /\ Active(t) /\ Active(u) => thr[t].sid # thr[u].sid

\* C19: approved results are present only together with generated results,
\* and then both are the same sequence of 4 items.
C19_PublishedAtomically ==
  \A sid \in DOMAIN STORE :
    STORE[sid].approved_images # NoImages =>
      /\ STORE[sid].generated_images # NoImages
      /\ STORE[sid].generated_images = STORE[sid].approved_images
      /\ Len(STORE[sid].approved_images) = NumImages

\* C20: startJob, cancelJob and pollStatus of one browser, and every step of a
\* worker (its failure path included), leave every other session of the store
\* as it is (a session that had expired is popped by the purge of any request),
\* and leave the workers of other jobs as they are.
C20_SessionsIsolated ==
  [][/\ \A b \in Browsers :
          (\/ api_generate_multi_start(b, SlotOf(b))
           \/ api_gen_cancel(b)
           \/ api_gen_status(b))
          => \A sid \in (DOMAIN STORE \ Expired(STORE)) \ {SidOf(b)} :
               sid \in DOMAIN STORE' /\ STORE'[sid] = STORE[sid]
     /\ \A t \in Threads :
          Worker(t) =>
            /\ \A sid \in DOMAIN STORE \ {thr[t].sid} :
                 sid \in DOMAIN STORE' /\ STORE'[sid] = STORE[sid]
            /\ \A u \in Threads \ {t} : thr'[u] = thr[u]]_vars

\* C20 witness: the job of one browser has failed while the job of the other
\* browser is half way, its third call in flight
C20_Witness ==
  \E a \in Browsers, b \in Browsers, t \in Threads :
    /\ a # b
    /\ cookie[a] \in DOMAIN STORE /\ cookie[b] \in DOMAIN STORE
    /\ STORE[cookie[a]].gen_status = "error"
    /\ STORE[cookie[a]].gen_error \in ProviderErrors
    /\ thr[t].sid = cookie[b] /\ thr[t].pc = "l258"
    /\ STORE[cookie[b]].gen_status = "running"
    /\ STORE[cookie[b]].gen_progress = ProgressAfter(1)

\* C21: with fair scheduling of the workers and every transform call coming
\* back, the thread of every accepted startJob ends, and a session whose
\* status is Queued or Running gets to Done, Canceled or Failed or is removed.
C21_JobsTerminate ==
  /\ \A t \in Threads : (thr[t].pc = "l231") ~> (thr[t].pc = "end")
  /\ \A sid \in Sids :
       (sid \in DOMAIN STORE /\ STORE[sid].gen_status \in NonTerminal)
         ~> (sid \notin DOMAIN STORE \/ STORE[sid].gen_status \in Terminal)

\* C21 witness: two jobs of one session, the second accepted while the first
\* was at work, have both ended and the session is Done with the results of
\* the second
C21_Witness ==
  \E sid \in DOMAIN STORE :
    /\ \A t \in Threads : thr[t].pc = "end"
    /\ STORE[sid].gen_status = "done"
    /\ STORE[sid].approved_images = OutputsOf(MaxJobs)
    /\ STORE[sid].generated_images = OutputsOf(1)
====
